---- MODULE Spec2Model ----
(***************************************************************************)
(* Model of encoder_bridge.py: a serial reader task that frames a device   *)
(* byte stream into lines, decodes each line as JSON (falling back to a    *)
(* raw event) and sends it to every websocket client, next to the          *)
(* per-connection websocket handlers and the health endpoint, all running  *)
(* as coroutines of one asyncio event loop.                                *)
(*                                                                         *)
(* Bytes and characters are one-character strings; BAD stands for a byte   *)
(* that is not valid UTF-8 (0xFF).  The byte alphabet is ASCII plus BAD.   *)
(***************************************************************************)
EXTENDS Integers, Sequences, FiniteSets, TLC

\* ------------------------------------------------------------------------
\* Bounds of the model
\* ------------------------------------------------------------------------
\* number of websocket connections the environment opens
NConns == 2
\* number of newline-terminated lines the device emits (Spec)
MaxLines == 3
\* number of newline-terminated lines the device emits (SpecCodec)
MaxCodecLines == 2
\* number of newline-terminated lines the device emits (SpecLive)
MaxLiveLines == 1
\* number of newline-terminated lines the device emits (SpecFanout)
MaxFanoutLines == 2

\* reader.read(256)
ReadSize == 256

Conns == 1..NConns

NL == "\n"
SP == " "
CR == "\r"
BAD == "xFF"
QUOTE == "\""
BSLASH == "\\"

Min(a, b) == IF a < b THEN a ELSE b

Range(s) == {s[i] : i \in 1..Len(s)}

\* ------------------------------------------------------------------------
\* bytes.strip() and bytes.decode("utf-8", "ignore")
\* ------------------------------------------------------------------------
\* the bytes that bytes.strip() removes from both ends
ByteWs == {" ", "\t", "\n", "\r", "\f", "x0B"}

RECURSIVE LStrip(_)
LStrip(b) == IF b # <<>> /\ Head(b) \in ByteWs THEN LStrip(Tail(b)) ELSE b

RECURSIVE RStrip(_)
RStrip(b) ==
    IF b # <<>> /\ b[Len(b)] \in ByteWs THEN RStrip(SubSeq(b, 1, Len(b) - 1)) ELSE b

Strip(b) == RStrip(LStrip(b))

IsValidByte(x) == x # BAD

\* errors="ignore": undecodable bytes are dropped
Utf8Decode(b) == SelectSeq(b, IsValidByte)

\* ------------------------------------------------------------------------
\* json.loads / json.dumps on the JSON subset: null, true, false, unsigned
\* integers, strings without escapes, arrays and objects.
\* A value is a tagged tuple; an object is a sequence of <<key, value>>
\* pairs in insertion order (a Python dict).
\* ------------------------------------------------------------------------
JNull == <<"null">>
JTrue == <<"true">>
JFalse == <<"false">>
JNum(n) == <<"num", n>>
JStr(s) == <<"str", s>>
JArr(xs) == <<"arr", xs>>
JObj(ps) == <<"obj", ps>>

JsonWs == {" ", "\t", "\n", "\r"}
Digits == <<"0", "1", "2", "3", "4", "5", "6", "7", "8", "9">>
DigitSet == Range(Digits)
DigitOf(ch) == CHOOSE d \in 0..9 : Digits[d + 1] = ch
\* characters that json.dumps writes as an escape and json.loads does not
\* accept bare inside a string
CtrlChars == {"\t", "\n", "\r", "\f", "x0B"}

RECURSIVE SkipWs(_, _)
SkipWs(s, i) == IF i <= Len(s) /\ s[i] \in JsonWs THEN SkipWs(s, i + 1) ELSE i

Fail == [ok |-> FALSE]
Ok(v, i) == [ok |-> TRUE, v |-> v, i |-> i]

StartsWith(s, i, w) == i + Len(w) - 1 <= Len(s) /\ SubSeq(s, i, i + Len(w) - 1) = w

\* index of the closing quote of the string whose body starts at i, or 0
RECURSIVE StrEnd(_, _)
StrEnd(s, i) ==
    IF i > Len(s) THEN 0
    ELSE IF s[i] = QUOTE THEN i
    ELSE IF s[i] = BSLASH \/ s[i] \in CtrlChars THEN 0
    ELSE StrEnd(s, i + 1)

\* the string from s[i] to its closing quote at e
StringTo(s, i, e) == IF e = 0 THEN Fail ELSE Ok(JStr(SubSeq(s, i + 1, e - 1)), e + 1)

ParseString(s, i) ==
    IF i <= Len(s) /\ s[i] = QUOTE THEN StringTo(s, i, StrEnd(s, i + 1)) ELSE Fail

RECURSIVE NumEnd(_, _)
NumEnd(s, i) == IF i <= Len(s) /\ s[i] \in DigitSet THEN NumEnd(s, i + 1) ELSE i

RECURSIVE DigitsVal(_)
DigitsVal(d) ==
    IF d = <<>> THEN 0
    ELSE 10 * DigitsVal(SubSeq(d, 1, Len(d) - 1)) + DigitOf(d[Len(d)])

\* an integer: "0", or digits not starting with "0"
NumberTo(s, i, e) ==
    IF e = i THEN Fail
    ELSE IF s[i] = "0" THEN Ok(JNum(0), i + 1)
    ELSE Ok(JNum(DigitsVal(SubSeq(s, i, e - 1))), e)

ParseNumber(s, i) == NumberTo(s, i, NumEnd(s, i))

\* dict[key] = value: a repeated key keeps its place and takes the new value
PutKey(ps, k, v) ==
    IF \E j \in 1..Len(ps) : ps[j][1] = k
    THEN [j \in 1..Len(ps) |-> IF ps[j][1] = k THEN <<k, v>> ELSE ps[j]]
    ELSE Append(ps, <<k, v>>)

\* The decoder is a pushdown automaton.  Its state: i, the next index of s;
\* mode, what is expected there ("value", "key", "after" a value inside a
\* container, "done", "fail"); stack, the containers being built, innermost
\* last, each <<"arr", elements>> or <<"obj", pairs, pending key>>; v, the
\* result.
Top(st) == st.stack[Len(st.stack)]
Pop(st) == SubSeq(st.stack, 1, Len(st.stack) - 1)

Failed(st) == [st EXCEPT !.mode = "fail"]

\* the value v, ending before index i, is complete
Complete(st, v, i) ==
    IF st.stack = <<>> THEN [st EXCEPT !.mode = "done", !.v = v, !.i = i]
    ELSE IF Top(st)[1] = "arr"
         THEN [st EXCEPT !.mode = "after", !.i = i,
                         !.stack = Append(Pop(st), JArr(Append(Top(st)[2], v)))]
    ELSE [st EXCEPT !.mode = "after", !.i = i,
                    !.stack = Append(Pop(st), <<"obj", PutKey(Top(st)[2], Top(st)[3], v), <<>>>>)]

\* the string or number parsed at s[i] is r
StepParsed(st, r) == IF r.ok THEN Complete(st, r.v, r.i) ELSE Failed(st)

\* "[" or "{" at s[i], with j the index of the next token: an empty container
\* when that token closes it, and a new frame otherwise
StepOpen(s, st, i, j, close, empty, frame, mode) ==
    IF j <= Len(s) /\ s[j] = close THEN Complete(st, empty, j + 1)
    ELSE [st EXCEPT !.mode = mode, !.i = i + 1, !.stack = Append(@, frame)]

\* a value is expected at s[i]
StepValue(s, st, i) ==
    IF i > Len(s) THEN Failed(st)
    ELSE IF s[i] = QUOTE THEN StepParsed(st, ParseString(s, i))
    ELSE IF s[i] \in DigitSet THEN StepParsed(st, ParseNumber(s, i))
    ELSE IF StartsWith(s, i, <<"n", "u", "l", "l">>) THEN Complete(st, JNull, i + 4)
    ELSE IF StartsWith(s, i, <<"t", "r", "u", "e">>) THEN Complete(st, JTrue, i + 4)
    ELSE IF StartsWith(s, i, <<"f", "a", "l", "s", "e">>) THEN Complete(st, JFalse, i + 5)
    ELSE IF s[i] = "["
         THEN StepOpen(s, st, i, SkipWs(s, i + 1), "]", JArr(<<>>), JArr(<<>>), "value")
    ELSE IF s[i] = "{"
         THEN StepOpen(s, st, i, SkipWs(s, i + 1), "}", JObj(<<>>), <<"obj", <<>>, <<>>>>, "key")
    ELSE Failed(st)

\* the member's key parsed at s[i] is k, and j is the index of the next token
KeyThen(s, st, k, j) ==
    IF j > Len(s) \/ s[j] # ":" THEN Failed(st)
    ELSE [st EXCEPT !.mode = "value", !.i = j + 1,
                    !.stack = Append(Pop(st), <<"obj", Top(st)[2], k.v[2]>>)]

KeyParsed(s, st, k) == IF k.ok THEN KeyThen(s, st, k, SkipWs(s, k.i)) ELSE Failed(st)

\* a member's key and its colon are expected at s[i]
StepKey(s, st, i) == KeyParsed(s, st, ParseString(s, i))

\* after a value of a container, "," or the closing bracket is expected at s[i]
StepAfter(s, st, i) ==
    IF i > Len(s) THEN Failed(st)
    ELSE IF Top(st)[1] = "arr"
         THEN IF s[i] = "]" THEN Complete([st EXCEPT !.stack = Pop(st)], JArr(Top(st)[2]), i + 1)
              ELSE IF s[i] = "," THEN [st EXCEPT !.mode = "value", !.i = i + 1]
              ELSE Failed(st)
    ELSE IF s[i] = "}" THEN Complete([st EXCEPT !.stack = Pop(st)], JObj(Top(st)[2]), i + 1)
    ELSE IF s[i] = "," THEN [st EXCEPT !.mode = "key", !.i = i + 1]
    ELSE Failed(st)

Step(s, st) ==
    CASE st.mode = "value" -> StepValue(s, st, SkipWs(s, st.i))
      [] st.mode = "key" -> StepKey(s, st, SkipWs(s, st.i))
      [] st.mode = "after" -> StepAfter(s, st, SkipWs(s, st.i))

RECURSIVE Run(_, _)
Run(s, st) == IF st.mode \in {"done", "fail"} THEN st ELSE Run(s, Step(s, st))

\* the value that starts at s[i], and the index after it
Outcome(st) == IF st.mode = "done" THEN Ok(st.v, st.i) ELSE Fail

ParseValue(s, i) == Outcome(Run(s, [i |-> i, mode |-> "value", stack |-> <<>>, v |-> JNull]))

\* json.loads(txt): the whole text is one value, or the call raises
Whole(txt, r) == IF r.ok /\ SkipWs(txt, r.i) = Len(txt) + 1 THEN r ELSE Fail

Loads(txt) == Whole(txt, ParseValue(txt, SkipWs(txt, 1)))

RECURSIVE NatStr(_)
NatStr(n) == IF n < 10 THEN <<Digits[n + 1]>> ELSE NatStr(n \div 10) \o <<Digits[(n % 10) + 1]>>

EscChar(ch) ==
    CASE ch = QUOTE -> <<BSLASH, QUOTE>>
      [] ch = BSLASH -> <<BSLASH, BSLASH>>
      [] ch = "\t" -> <<BSLASH, "t">>
      [] ch = "\n" -> <<BSLASH, "n">>
      [] ch = "\r" -> <<BSLASH, "r">>
      [] ch = "\f" -> <<BSLASH, "f">>
      [] ch = "x0B" -> <<BSLASH, "u", "0", "0", "0", "b">>
      [] OTHER -> <<ch>>

RECURSIVE EscStr(_)
EscStr(s) == IF s = <<>> THEN <<>> ELSE EscChar(Head(s)) \o EscStr(Tail(s))

DumpStr(s) == <<QUOTE>> \o EscStr(s) \o <<QUOTE>>

RECURSIVE Dumps(_)
RECURSIVE DumpElems(_)
RECURSIVE DumpMembers(_)

\* json.dumps(msg) with the default separators ", " and ": "
Dumps(v) ==
    CASE v[1] = "null" -> <<"n", "u", "l", "l">>
      [] v[1] = "true" -> <<"t", "r", "u", "e">>
      [] v[1] = "false" -> <<"f", "a", "l", "s", "e">>
      [] v[1] = "num" -> NatStr(v[2])
      [] v[1] = "str" -> DumpStr(v[2])
      [] v[1] = "arr" -> <<"[">> \o DumpElems(v[2]) \o <<"]">>
      [] v[1] = "obj" -> <<"{">> \o DumpMembers(v[2]) \o <<"}">>

DumpElems(xs) ==
    IF xs = <<>> THEN <<>>
    ELSE Dumps(xs[1]) \o (IF Len(xs) = 1 THEN <<>> ELSE <<",", " ">> \o DumpElems(Tail(xs)))

DumpMembers(ps) ==
    IF ps = <<>> THEN <<>>
    ELSE DumpStr(ps[1][1]) \o <<":", " ">> \o Dumps(ps[1][2])
         \o (IF Len(ps) = 1 THEN <<>> ELSE <<",", " ">> \o DumpMembers(Tail(ps)))


\* ------------------------------------------------------------------------
\* Device input: the lines the device may emit
\* ------------------------------------------------------------------------
\* {"ev":"turn"}
TurnLine == <<"{", QUOTE, "e", "v", QUOTE, ":", QUOTE, "t", "u", "r", "n", QUOTE, "}">>
GarbageLine == <<"x">>
NumberLine == <<"5">>
BlankLine == <<>>
\* a line with surrounding whitespace, as in a CR LF line ending
PaddedLine == <<SP, "x", CR>>
BadLine == <<BAD>>
\* an empty line with a CR LF line ending
CrLine == <<CR>>

\* the lines of SpecCodec, which explores framing and decoding
CodecLexicon == {TurnLine, GarbageLine, NumberLine, BlankLine, PaddedLine, BadLine, CrLine}

RECURSIVE Join(_)
Join(ls) == IF ls = <<>> THEN <<>> ELSE Head(ls) \o <<NL>> \o Join(Tail(ls))

StreamsOf(lex, k) == UNION {{Join(f) : f \in [1..n -> lex]} : n \in 0..k}

\* the streams of Spec, which explores the interleavings of the connections:
\* the first n of the lines x, 5, x, 5, ...
Alternating(n) == [i \in 1..n |-> IF i % 2 = 1 THEN GarbageLine ELSE NumberLine]

Streams == {Join(Alternating(n)) : n \in 0..MaxLines}


\* ------------------------------------------------------------------------
\* State
\* ------------------------------------------------------------------------
VARIABLES
    stream,   \* the bytes the device emits over its lifetime
    pos,      \* how many of them reader.read has returned
    dev,      \* "open" or "eof": the device stream
    buff,     \* serial_reader_task: buff
    rpc,      \* serial_reader_task: "read", "sleep", "send" or "crashed"
    data,     \* serial_reader_task: data
    snap,     \* serial_reader_task: list(clients) of the publish
    idx,      \* serial_reader_task: position of the for loop in snap
    dead,     \* serial_reader_task: dead
    clients,  \* the module's set of websocket clients
    conn,     \* per connection: "connecting" (its request not yet upgraded), "open" or "closed"
    broken,   \* per connection: its transport no longer accepts a send
    resp,     \* the last response of the health endpoint
    recv,     \* history: per connection, the messages it received
    lines,    \* history: the lines the reader split off the buffer
    events,   \* history: the messages the reader built, one per record
    failed    \* history: the connections a send to which has raised

vars == <<stream, pos, dev, buff, rpc, data, snap, idx, dead, clients, conn,
          broken, resp, recv, lines, events, failed>>

\* no request to the health endpoint has been answered yet
NoResponse == [status |-> 0, body |-> <<>>]

Start(streams, conns) ==
    /\ stream \in streams
    /\ pos = 0
    /\ dev = "open"
    /\ buff = <<>>
    /\ rpc = "read"
    /\ data = <<>>
    /\ snap = <<>>
    /\ idx = 1
    /\ dead = <<>>
    /\ clients = {}
    /\ conn = [c \in Conns |-> IF c \in conns THEN "connecting" ELSE "closed"]
    /\ broken = [c \in Conns |-> FALSE]
    /\ resp = NoResponse
    /\ recv = [c \in Conns |-> <<>>]
    /\ lines = <<>>
    /\ events = <<>>
    /\ failed = {}

Init == Start(Streams, Conns)

\* the first publishes, every connection
InitFanout == Start({Join(Alternating(n)) : n \in 0..MaxFanoutLines}, Conns)

\* few lines, every connection
InitLive == Start({Join(Alternating(n)) : n \in 0..MaxLiveLines}, Conns)

\* one connection only: every other connection has come and gone
InitCodec == Start(StreamsOf(CodecLexicon, MaxCodecLines), {1})

\* ------------------------------------------------------------------------
\* serial_reader_task: the pieces of the loop body
\* ------------------------------------------------------------------------
HasNL(b) == \E i \in 1..Len(b) : b[i] = NL

LastNL(b) == CHOOSE i \in 1..Len(b) : b[i] = NL /\ \A j \in (i + 1)..Len(b) : b[j] # NL

\* the index buff.split(b"\n", 1) splits at
FirstNL(b) == CHOOSE i \in 1..Len(b) : b[i] = NL /\ \A j \in 1..(i - 1) : b[j] # NL

\* line, buff = buff.split(b"\n", 1)
SplitAt(b, i) == <<SubSeq(b, 1, i - 1), SubSeq(b, i + 1, Len(b))>>

Split(b) == SplitAt(b, FirstNL(b))

\* txt = line.strip().decode("utf-8", "ignore")
Text(line) == Utf8Decode(Strip(line))

KeyT == <<"t">>
KeyEv == <<"e", "v">>
KeyLine == <<"l", "i", "n", "e">>
KindRaw == <<"r", "a", "w">>

\* {"t": None, "ev": "raw", "line": txt}
RawEvent(txt) == JObj(<< <<KeyT, JNull>>, <<KeyEv, JStr(KindRaw)>>, <<KeyLine, JStr(txt)>> >>)

\* try: msg = json.loads(txt)  except Exception: msg = {...}
DecodedLossy(r, txt) == IF r.ok THEN r.v ELSE RawEvent(<<>>)

Decoded(r, txt) == IF r.ok THEN r.v ELSE RawEvent(txt)

Decode(txt) == Decoded(Loads(txt), txt)

SkipNever(txt) == FALSE

\* if not txt: continue
Skip(txt) == txt = <<>>

ShouldPublishAlways(cl) == TRUE

\* if clients:
ShouldPublish(cl) == cl # {}

SnapshotFirst(cl) == IF cl = {} THEN {<<>>} ELSE {<<c>> : c \in cl}

\* list(clients): the members of the set, in any one order
Snapshot(cl) ==
    {f \in [1..Cardinality(cl) -> cl] : \A i, j \in 1..Cardinality(cl) : i # j => f[i] # f[j]}

OnSendErrorForget(d, c) == d

\* except Exception: dead.append(c)
OnSendError(d, c) == Append(d, c)

PruneNone(cl, d) == cl

PruneAdds(cl, d) == cl \cup Range(d)

\* for d in dead: clients.discard(d)
Prune(cl, d) == cl \ Range(d)

NextIdxSkip(i, n, raised) == i + 2

NextIdxRetry(i, n, raised) == IF raised THEN i ELSE i + 1

NextIdxBreak(i, n, raised) == IF raised THEN n + 1 ELSE i + 1

\* the for loop moves on to the next client, whatever the send did
NextIdx(i, n, raised) == i + 1

PrepareRaisedAdds(cl, c) == cl \cup {c}

\* await ws.prepare(request) raises: clients.add(ws) is not reached
PrepareRaised(cl, c) == cl

\* clients.add(ws)
Register(cl, c) == cl \cup {c}

DeregisterNone(cl, c) == cl

DeregisterAll(cl, c) == IF c \in cl THEN cl \ {c} ELSE {}

\* clients.discard(ws)
Deregister(cl, c) == cl \ {c}

\* The inner loop "while b'\n' in buff" from its test up to the first await:
\* it runs to the end of the loop when no record is published, and stops at
\* the first send of a publish otherwise; sn is the list(clients) such a
\* publish iterates.  It yields the new buff, lines and
\* events, whether a publish begins (pub), and then its data and snap.
RECURSIVE Drain(_, _, _, _, _)
RECURSIVE DrainLine(_, _, _, _, _)
RECURSIVE DrainText(_, _, _, _, _, _)
RECURSIVE DrainMsg(_, _, _, _, _, _)

Drain(b, cl, ls, es, sn) ==
    IF HasNL(b) THEN DrainLine(Split(b), cl, ls, es, sn)
    ELSE [buff |-> b, lines |-> ls, events |-> es, pub |-> FALSE]

\* sp is <<line, rest of buff>>
DrainLine(sp, cl, ls, es, sn) == DrainText(sp[2], Text(sp[1]), cl, Append(ls, sp[1]), es, sn)

DrainText(rest, txt, cl, ls, es, sn) ==
    IF Skip(txt) THEN Drain(rest, cl, ls, es, sn)
    ELSE DrainMsg(rest, Decode(txt), cl, ls, es, sn)

DrainMsg(rest, msg, cl, ls, es, sn) ==
    IF ShouldPublish(cl)
    THEN [buff |-> rest, lines |-> ls, pub |-> TRUE,
          events |-> Append(es, [ln |-> Len(ls), msg |-> msg, aud |-> cl]),
          data |-> Dumps(msg), snap |-> sn]
    ELSE Drain(rest, cl, ls, Append(es, [ln |-> Len(ls), msg |-> msg, aud |-> cl]), sn)

\* the reader's variables after the inner loop ended as q; d is dead when no
\* publish begins
Loop(q, d) ==
    /\ buff' = q.buff
    /\ lines' = q.lines
    /\ events' = q.events
    /\ IF q.pub
       THEN /\ rpc' = "send"
            /\ data' = q.data
            /\ snap' = q.snap
            /\ idx' = 1
            /\ dead' = <<>>
       ELSE /\ rpc' = "read"
            /\ snap' = <<>>
            /\ idx' = 1
            /\ dead' = d
            /\ UNCHANGED data

AfterBackoffStop == "crashed"

\* continue: back to the read at the top of "while True"
AfterBackoff == "read"

Running == rpc # "crashed"

\* chunk = await reader.read(256) returns bytes: buff += chunk and the inner loop
ReadChunk ==
    /\ rpc = "read"
    /\ \E n \in 1..Min(ReadSize, Len(stream) - pos), sn \in Snapshot(clients) :
          /\ pos' = pos + n
          /\ Loop(Drain(buff \o SubSeq(stream, pos + 1, pos + n), clients, lines, events, sn), dead)
    /\ UNCHANGED <<stream, dev, clients, conn, broken, resp, recv, failed>>

\* chunk = await reader.read(256) returns b"": nothing available, or end of stream
ReadEmpty ==
    /\ rpc = "read"
    /\ rpc' = "sleep"
    /\ UNCHANGED <<stream, pos, dev, buff, data, snap, idx, dead, clients, conn,
                   broken, resp, recv, lines, events, failed>>

\* await asyncio.sleep(0.01); continue
Wake ==
    /\ rpc = "sleep"
    /\ rpc' = AfterBackoff
    /\ UNCHANGED <<stream, pos, dev, buff, data, snap, idx, dead, clients, conn,
                   broken, resp, recv, lines, events, failed>>

\* await reader.read(256) raises: nothing catches it, main() and the process end
ReadError ==
    /\ rpc = "read"
    /\ rpc' = "crashed"
    /\ UNCHANGED <<stream, pos, dev, buff, data, snap, idx, dead, clients, conn,
                   broken, resp, recv, lines, events, failed>>

\* the device stream ends after its last byte
DeviceClose ==
    /\ Running
    /\ dev = "open"
    /\ pos = Len(stream)
    /\ dev' = "eof"
    /\ UNCHANGED <<stream, pos, buff, rpc, data, snap, idx, dead, clients, conn,
                   broken, resp, recv, lines, events, failed>>

\* await c.send_str(data) ends for c = snap[idx], raising when raised is true; the for
\* loop goes on, and after its last client the dead are discarded and the
\* inner loop continues
SendEnds(raised, sn, c, d2, i2) ==
    /\ failed' = IF raised THEN failed \cup {c} ELSE failed
    /\ recv' = IF raised THEN recv
               ELSE [recv EXCEPT ![c] = Append(@, [n |-> Len(events), data |-> data])]
    /\ IF i2 <= Len(snap)
       THEN /\ idx' = i2
            /\ dead' = d2
            /\ UNCHANGED <<buff, rpc, data, snap, clients, lines, events>>
       ELSE /\ clients' = Prune(clients, d2)
            /\ Loop(Drain(buff, Prune(clients, d2), lines, events, sn), d2)
    /\ UNCHANGED <<stream, pos, dev, conn, broken, resp>>

SendOk ==
    /\ rpc = "send"
    /\ idx <= Len(snap)
    /\ ~broken[snap[idx]]
    /\ \E sn \in Snapshot(Prune(clients, dead)) :
          SendEnds(FALSE, sn, snap[idx], dead, NextIdx(idx, Len(snap), FALSE))

SendFail ==
    /\ rpc = "send"
    /\ idx <= Len(snap)
    /\ broken[snap[idx]]
    /\ \E sn \in Snapshot(Prune(clients, OnSendError(dead, snap[idx]))) :
          SendEnds(TRUE, sn, snap[idx], OnSendError(dead, snap[idx]),
                   NextIdx(idx, Len(snap), TRUE))

\* ------------------------------------------------------------------------
\* ws_handler and health
\* ------------------------------------------------------------------------
\* ws_handler from its start to "async for": ws.prepare returns and
\* clients.add(ws); nothing before the await touches the shared state
PrepareOk(c) ==
    /\ Running
    /\ conn[c] = "connecting"
    /\ conn' = [conn EXCEPT ![c] = "open"]
    /\ clients' = Register(clients, c)
    /\ UNCHANGED <<stream, pos, dev, buff, rpc, data, snap, idx, dead,
                   broken, resp, recv, lines, events, failed>>

\* ws_handler from its start: ws.prepare raises and the handler ends before
\* clients.add
PrepareFail(c) ==
    /\ Running
    /\ conn[c] = "connecting"
    /\ conn' = [conn EXCEPT ![c] = "closed"]
    /\ clients' = PrepareRaised(clients, c)
    /\ UNCHANGED <<stream, pos, dev, buff, rpc, data, snap, idx, dead,
                   broken, resp, recv, lines, events, failed>>

\* the connection closes or breaks (client disconnect, protocol error,
\* heartbeat timeout): from now on a send to it raises
ConnDrop(c) ==
    /\ Running
    /\ conn[c] = "open"
    /\ ~broken[c]
    /\ broken' = [broken EXCEPT ![c] = TRUE]
    /\ UNCHANGED <<stream, pos, dev, buff, rpc, data, snap, idx, dead, clients,
                   conn, resp, recv, lines, events, failed>>

\* "async for _ in ws" ends, normally or by an exception: finally clients.discard(ws)
HandlerEnd(c) ==
    /\ Running
    /\ conn[c] = "open"
    /\ broken[c]
    /\ conn' = [conn EXCEPT ![c] = "closed"]
    /\ clients' = Deregister(clients, c)
    /\ UNCHANGED <<stream, pos, dev, buff, rpc, data, snap, idx, dead,
                   broken, resp, recv, lines, events, failed>>

KeyOk == <<"o", "k">>

HealthResponseError == [status |-> 500, body |-> <<>>]

\* web.json_response({"ok": True})
HealthResponse == [status |-> 200, body |-> Dumps(JObj(<< <<KeyOk, JTrue>> >>))]

Health ==
    /\ Running
    /\ resp' = HealthResponse
    /\ UNCHANGED <<stream, pos, dev, buff, rpc, data, snap, idx, dead, clients,
                   conn, broken, recv, lines, events, failed>>

Next ==
    \/ ReadChunk
    \/ ReadEmpty
    \/ Wake
    \/ ReadError
    \/ DeviceClose
    \/ SendOk
    \/ SendFail
    \/ \E c \in Conns : PrepareOk(c)
    \/ \E c \in Conns : PrepareFail(c)
    \/ \E c \in Conns : ConnDrop(c)
    \/ \E c \in Conns : HandlerEnd(c)
    \/ Health

Spec == Init /\ [][Next]_vars

SpecCodec == InitCodec /\ [][Next]_vars

SpecFanout == InitFanout /\ [][Next]_vars

\* the event loop resumes a handler whose "async for" has ended
HandlerFair == \A c \in Conns : WF_vars(HandlerEnd(c))

\* asyncio.sleep(0.01) returns
ReaderFair == WF_vars(Wake)

SpecLive == InitLive /\ [][Next]_vars /\ HandlerFair /\ ReaderFair

\* ------------------------------------------------------------------------
\* Properties
\* ------------------------------------------------------------------------
\* the last message c received is the event number n
GotEvent(rc, c, n) == rc[c] # <<>> /\ rc[c][Len(rc[c])].n = n

\* the step in which the for loop of a publish ends
LoopEnds == rpc = "send" /\ (rpc' # "send" \/ Len(events') > Len(events))

\* C1: when a publish ends, every subscriber of its snapshot had a send
\* attempted (it got the event, or its send raised), the reader task did not
\* die of it, and the publish removed from clients exactly the subscribers of
\* the snapshot whose send raised.
C1_IndependentDelivery ==
    [][LoopEnds =>
          /\ \A c \in Range(snap) : c \in failed' \/ GotEvent(recv', c, Len(events))
          /\ clients' = clients \ (failed' \cap Range(snap))
          /\ rpc' # "crashed"]_vars

\* a publish to two subscribers ended: one send raised and that subscriber
\* is gone, the other got the event and is still a member
C1_Witness ==
    /\ rpc = "read"
    /\ events # <<>>
    /\ \E c, d \in events[Len(events)].aud :
          /\ d \in failed /\ d \notin clients
          /\ c \in clients /\ GotEvent(recv, c, Len(events))

\* the numbers of the events published while c was a member, in order
PublishedTo(c) ==
    SelectSeq([i \in 1..Len(events) |-> i], LAMBDA i : c \in events[i].aud)

\* the send of the event in flight to c is still to come
Awaiting(c) == rpc = "send" /\ \E k \in idx..Len(snap) : snap[k] = c

\* what c has received when no send to it was skipped
Due(c) ==
    IF Awaiting(c) THEN SubSeq(PublishedTo(c), 1, Len(PublishedTo(c)) - 1)
    ELSE PublishedTo(c)

\* C2: a subscriber that is a member and had no send to it raise has received
\* exactly the events published while it was a member, once each, in publish
\* order, each as the serialization of that event; and publish order is the
\* order of the lines in the device stream.
C2_PerSubscriberOrder ==
    /\ \A c \in clients \ failed :
          recv[c] = [k \in 1..Len(Due(c)) |->
                        [n |-> Due(c)[k], data |-> Dumps(events[Due(c)[k]].msg)]]
    /\ \A i, j \in 1..Len(events) : i < j => events[i].ln < events[j].ln

\* S1 received E1, E2, E3 in order although S2's send of E2 raised
C2_Witness ==
    \E c, d \in Conns :
       /\ c \in clients \ failed
       /\ Len(recv[c]) = 3 /\ recv[c][1].n = 1 /\ recv[c][3].n = 3
       /\ d \in failed /\ d \in events[2].aud /\ Len(recv[d]) = 1

\* some step delivers a message to d
Delivers(d) == Next /\ Len(recv'[d]) > Len(recv[d])

\* C3 (as claimed): while the send to one subscriber is pending, the event in
\* flight can be delivered to every other healthy subscriber of the
\* snapshot that is still waiting for it.
C3_NoStall ==
    \A d \in Conns :
       (rpc = "send" /\ ~broken[d] /\ \E k \in (idx + 1)..Len(snap) : snap[k] = d)
          => ENABLED Delivers(d)

\* C4 (as claimed): while device bytes are unread and the reader is not
\* backing off after an empty read, the reader is awaiting reader.read(256),
\* where those bytes reach it: no pending delivery to a subscriber and no
\* handler waiting on its connection keeps it from the read.
C4_NoBackpressure ==
    (pos < Len(stream) /\ clients # {} /\ rpc # "sleep" /\ Running) => rpc = "read"

\* C5 (as claimed): no subscriber a send to which has raised is a member
\* of clients.
C5_RemovedAtOnce == failed \cap clients = {}

\* C5 (amended): a subscriber a send to which has raised is a member of
\* clients only until the publish of that send ends: only while the reader
\* is in the for loop of that publish, where it is listed in dead.
C5_RemovedByPublishEnd ==
    failed \cap clients # {} => rpc = "send" /\ failed \cap clients \subseteq Range(dead)

\* a publish with a raised send has ended and the subscriber is removed,
\* while its handler has not ended yet
C5_Witness ==
    \E c \in failed : rpc = "read" /\ c \notin clients /\ conn[c] = "open"

\* C6 (as claimed): after the end of the device stream the reader does not
\* go on to sleep and retry.
C6_EofIsFatal == ~(dev = "eof" /\ rpc = "sleep")

\* the numbers of the events built from line number k
EventsOf(k) == {i \in 1..Len(events) : events[i].ln = k}

\* a line as text, written out: its bytes from the first to the last that is
\* not whitespace, without the bytes that are not UTF-8
RefText(b) ==
    IF \A i \in 1..Len(b) : b[i] \in ByteWs THEN <<>>
    ELSE SelectSeq(SubSeq(b, CHOOSE i \in 1..Len(b) :
                                 b[i] \notin ByteWs /\ \A j \in 1..(i - 1) : b[j] \in ByteWs,
                             CHOOSE i \in 1..Len(b) :
                                 b[i] \notin ByteWs /\ \A j \in (i + 1)..Len(b) : b[j] \in ByteWs),
                   LAMBDA x : x # BAD)

\* {"t": null, "ev": "raw", "line": t}, written out
RefRaw(t) ==
    <<"obj", << << <<"t">>, <<"null">> >>,
                << <<"e", "v">>, <<"str", <<"r", "a", "w">> >> >>,
                << <<"l", "i", "n", "e">>, <<"str", t>> >> >> >>

\* C7 (as claimed): every non-empty line of the device yields exactly one
\* event, and when the line does not parse, that event is the raw event
\* whose line is the text of the line verbatim and whose t is null.
C7_OneEventPerLine ==
    \A k \in 1..Len(lines) :
       lines[k] # <<>> =>
          /\ Cardinality(EventsOf(k)) = 1
          /\ ~Loads(Utf8Decode(lines[k])).ok =>
                \A i \in EventsOf(k) : events[i].msg = RefRaw(Utf8Decode(lines[k]))

\* C7 (amended): every line that is not empty once its surrounding
\* whitespace is stripped and its undecodable bytes are dropped yields exactly
\* one event: the parsed value of that text when it parses, and otherwise the
\* raw event whose line is that stripped, decoded text and whose t is null; a
\* line that is empty after stripping and decoding yields no event.
C7_OneEventPerText ==
    \A k \in 1..Len(lines) :
       IF RefText(lines[k]) = <<>> THEN EventsOf(k) = {}
       ELSE /\ Cardinality(EventsOf(k)) = 1
            /\ \A i \in EventsOf(k) :
                  events[i].msg = IF Loads(RefText(lines[k])).ok
                                  THEN Loads(RefText(lines[k])).v
                                  ELSE RefRaw(RefText(lines[k]))

\* a padded line that does not parse became one raw event with the stripped
\* text, and a line of whitespace only became none
C7_Witness ==
    \E k, m \in 1..Len(lines) :
       /\ lines[k] = PaddedLine
       /\ \E i \in EventsOf(k) : events[i].msg = RefRaw(<<"x">>)
       /\ lines[m] = CrLine
       /\ EventsOf(m) = {}

\* the kinds of Event
Kinds ==
    {<<"b", "o", "o", "t">>, <<"t", "u", "r", "n">>, <<"p", "r", "e", "s", "s">>,
     <<"r", "e", "l", "e", "a", "s", "e">>, <<"r", "a", "w">>}

\* v is a JSON object with a member ev that is the name of a kind
IsEvent(v) ==
    /\ v[1] = "obj"
    /\ \E p \in 1..Len(v[2]) :
          v[2][p][1] = <<"e", "v">> /\ v[2][p][2][1] = "str" /\ v[2][p][2][2] \in Kinds

\* C8 (as claimed): every message a subscriber received is one JSON object
\* whose ev is one of boot, turn, press, release, raw.
C8_OnlyEvents ==
    \A c \in Conns : \A k \in 1..Len(recv[c]) :
       Loads(recv[c][k].data).ok /\ IsEvent(Loads(recv[c][k].data).v)

\* the bytes reader.read has returned so far
Consumed == SubSeq(stream, 1, pos)

\* the positions of the newlines of s, and the k-th of them (0 for k = 0)
NLs(s) == {i \in 1..Len(s) : s[i] = NL}
NthNL(s, k) ==
    IF k = 0 THEN 0 ELSE CHOOSE i \in NLs(s) : Cardinality({j \in NLs(s) : j < i}) = k - 1

\* the records of s: what lies between its newlines; and what follows the last
RefLines(s) ==
    [k \in 1..Cardinality(NLs(s)) |-> SubSeq(s, NthNL(s, k - 1) + 1, NthNL(s, k) - 1)]
RefRest(s) == SubSeq(s, NthNL(s, Cardinality(NLs(s))) + 1, Len(s))

\* the texts of the records ls that are not empty, in order
RefTexts(ls) == SelectSeq([k \in 1..Len(ls) |-> RefText(ls[k])], LAMBDA t : t # <<>>)

\* the message of the text record t
RefMsg(t) == IF Loads(t).ok THEN Loads(t).v ELSE RefRaw(t)

\* c has been a member since before the first publish and no send to it raised
Throughout(c) ==
    /\ c \in clients \ failed
    /\ \A i \in 1..Len(events) : c \in events[i].aud

\* C9: the records the framer has produced and the bytes it holds are a
\* function of the bytes read so far alone, whatever chunks they came in:
\* the records are the newline-terminated pieces of those bytes, each once
\* and in order (only while a publish is in flight, the last of them still
\* wait in buff), and buff holds what follows the last newline; the events
\* are the messages of the non-empty text records in order; and a subscriber
\* registered throughout has received exactly their serializations, in
\* order, once each, up to the one in flight to it.
C9_ChunkIndependent ==
    /\ lines \o RefLines(buff) = RefLines(Consumed)
    /\ RefRest(buff) = RefRest(Consumed)
    /\ rpc # "send" => NLs(buff) = {}
    /\ Len(events) = Len(RefTexts(lines))
    /\ \A i \in 1..Len(events) : events[i].msg = RefMsg(RefTexts(lines)[i])
    /\ \A c \in Conns :
          Throughout(c) =>
             recv[c] = [k \in 1..(Len(events) - IF Awaiting(c) THEN 1 ELSE 0) |->
                           [n |-> k, data |-> Dumps(RefMsg(RefTexts(RefLines(Consumed))[k]))]]

\* a subscriber registered throughout has received the first record and not
\* the second, of which a read has returned the first bytes only
C9_Witness ==
    /\ rpc = "read"
    /\ Throughout(1)
    /\ lines = <<GarbageLine>>
    /\ buff = SubSeq(TurnLine, 1, Len(buff))
    /\ buff # <<>>
    /\ recv[1] = <<[n |-> 1, data |-> Dumps(RefRaw(<<"x">>))]>>

\* the step builds events while clients is empty
EmptyPublish == Len(events') > Len(events) /\ events'[Len(events')].aud = {}

\* C10: a publish while clients is empty is a no-op. The step of such a
\* publish raises nothing and starts no send: the reader is back at its
\* read with clients still empty, data as it was and no complete record
\* left in buff, and when it came from the read it changed nothing of
\* clients, data, dead or what the subscribers received; and the event of
\* such a publish is never received by any subscriber.
C10_EmptyPublishNoOp ==
    /\ [][EmptyPublish =>
             /\ rpc' = "read" /\ clients' = {} /\ data' = data /\ NLs(buff') = {}
             /\ rpc = "read" => UNCHANGED <<clients, data, snap, idx, dead, recv, failed>>]_vars
    /\ [](\A c \in Conns : \A k \in 1..Len(recv[c]) : events[recv[c][k].n].aud # {})

\* a subscriber that registered after a publish to nobody received a later
\* event and not that one
C10_Witness ==
    \E c \in clients :
       /\ events # <<>>
       /\ events[1].aud = {}
       /\ recv[c] # <<>>
       /\ \A k \in 1..Len(recv[c]) : recv[c][k].n > 1

\* c has received the event number i
Received(c, i) == \E k \in 1..Len(recv[c]) : recv[c][k].n = i

\* the events whose publish has ended
Ended == 1..(Len(events) - IF rpc = "send" THEN 1 ELSE 0)

\* C11: every publish iterates a snapshot of clients taken when it began.
\* While a publish is in flight, snap lists exactly the members of clients
\* at its beginning, each once, whatever has registered or deregistered
\* since: the members before idx have had their send (they received the
\* event or their send raised), the others have not received it. Once a
\* publish has ended, every member of its snapshot has received the event
\* or had its send raise and is no member any more. And no subscriber has
\* received an event whose publish began while it was not a member.
C11_ConsistentSnapshot ==
    /\ rpc = "send" =>
          /\ Range(snap) = events[Len(events)].aud
          /\ \A i, j \in 1..Len(snap) : i # j => snap[i] # snap[j]
          /\ idx \in 1..Len(snap)
          /\ \A k \in 1..(idx - 1) : Received(snap[k], Len(events)) \/ snap[k] \in Range(dead)
          /\ \A k \in idx..Len(snap) : ~Received(snap[k], Len(events))
    /\ \A i \in Ended : \A c \in events[i].aud :
          \/ Received(c, i)
          \/ /\ c \in failed
             /\ c \notin clients
             /\ \A j \in (i + 1)..Len(events) : c \notin events[j].aud
    /\ \A c \in Conns : \A k \in 1..Len(recv[c]) : c \in events[recv[c][k].n].aud

\* a publish is suspended in its send to a subscriber that has deregistered
\* in the meantime, while another subscriber has registered
C11_Witness ==
    /\ rpc = "send"
    /\ idx <= Len(snap)
    /\ snap[idx] \notin clients
    /\ clients \ Range(snap) # {}

\* C12: a subscriber whose connection has left OPEN stops being a member.
\* When its handler has ended, normally or by an exception, it is no member;
\* a subscriber a send to which raised is a member only until the publish of
\* that send ends; and a subscriber whose connection has closed or broken is
\* eventually no member, as long as the process lives.
C12_LeavingDeregisters ==
    /\ [](\A c \in Conns : conn[c] = "closed" => c \notin clients)
    /\ [](\A c \in failed \cap clients : rpc = "send" /\ c \in Range(dead))
    /\ \A c \in Conns : broken[c] ~> (c \notin clients \/ rpc = "crashed")

\* one subscriber was removed by the publish whose send to it raised, while
\* its handler has not ended; another by the end of its handler
C12_Witness ==
    \E c, d \in Conns :
       /\ c \in failed /\ conn[c] = "open" /\ c \notin clients
       /\ d \notin failed /\ conn[d] = "closed" /\ recv[d] # <<>> /\ d \notin clients

\* C13: a connection goes from connecting to open to closed and never back.
\* A member of clients is an open connection; a connection becomes a member
\* only in the step that opens it, so at most once, and one that has been
\* removed is never a member again; and every publish is built for the
\* members of clients at that moment and delivers to them only, so none
\* attempts a delivery to a subscriber removed before it began.
C13_NoWayBack ==
    /\ [](\A c \in clients : conn[c] = "open")
    /\ [][\A c \in Conns :
            /\ conn[c] = "closed" => conn'[c] = "closed"
            /\ conn[c] = "open" => conn'[c] # "connecting"
            /\ (c \in clients' /\ c \notin clients) => (conn[c] = "connecting" /\ conn'[c] = "open")
            /\ \A i \in (Len(events) + 1)..Len(events') : events'[i].aud = clients'
            /\ Len(recv'[c]) > Len(recv[c]) => c \in events[Len(events)].aud]_vars

\* a subscriber that received the first event was removed, and the second
\* event was published without it
C13_Witness ==
    \E c \in Conns :
       /\ Len(events) = 2
       /\ Received(c, 1)
       /\ c \notin events[2].aud
       /\ c \notin clients
       /\ events[2].aud # {}

\* the handler of c ends in this step
Ends(c) == conn[c] = "open" /\ conn'[c] = "closed"

\* C14: removing a subscriber that is no member any more is a no-op. When
\* the handler of a subscriber ends after a publish has removed it, its
\* discard leaves clients and the reader as they are; and when a publish
\* ends that had a send raise for a subscriber whose handler has ended in the
\* meantime, its discard removes the members whose send raised and nobody
\* else, and the reader goes on.
C14_DeregisterTwice ==
    [][/\ \A c \in Conns :
             (Ends(c) /\ c \notin clients) => (clients' = clients /\ rpc' = rpc /\ dead' = dead)
       /\ (LoopEnds /\ (failed' \cap Range(snap)) \ clients # {}) =>
             (clients' = clients \ failed' /\ rpc' # "crashed")]_vars

\* a subscriber was removed both by the publish whose send to it raised and
\* by the end of its handler, and the other subscriber is still a member
C14_Witness ==
    \E c, d \in Conns :
       /\ rpc = "read"
       /\ c \in failed /\ conn[c] = "closed" /\ c \notin clients
       /\ d \in clients /\ d \in events[Len(events)].aud /\ c \in events[Len(events)].aud

\* the upgrade of c fails in this step
UpgradeFails(c) == conn[c] = "connecting" /\ conn'[c] = "closed"

\* C15: a connection that is not open has never been registered: it is no
\* member, it is in the snapshot of no event and it has received nothing
\* while its upgrade is pending, and the step in which its upgrade fails
\* changes nothing but the state of that connection, so that the reader,
\* the other connections and what they received are as if the request had
\* not been made; the connection is closed from then on, so it never
\* becomes a member.
C15_UpgradeFailureLocal ==
    /\ [](\A c \in Conns :
             (conn[c] = "connecting" \/ (conn[c] = "closed" /\ ~broken[c])) =>
                /\ c \notin clients
                /\ recv[c] = <<>>
                /\ \A i \in 1..Len(events) : c \notin events[i].aud)
    /\ [][\A c \in Conns :
             UpgradeFails(c) =>
                /\ UNCHANGED <<stream, pos, dev, buff, rpc, data, snap, idx, dead, clients,
                               broken, resp, recv, lines, events, failed>>
                /\ \A d \in Conns \ {c} : conn'[d] = conn[d]]_vars

\* the upgrade of one connection failed, and another subscriber has received
\* every event
C15_Witness ==
    \E c, d \in Conns :
       /\ conn[c] = "closed" /\ ~broken[c]
       /\ d \in clients
       /\ Len(events) = 2
       /\ Len(recv[d]) = 2

\* status 200 with the body {"ok": true}, written out
RefHealth ==
    [status |-> 200, body |-> <<"{", "\"", "o", "k", "\"", ":", " ", "t", "r", "u", "e", "}">>]

\* C16: in every state of the running process a request to the health
\* endpoint is answered; the answer is status 200 with the body {"ok": true}
\* whatever the state; and the step that answers changes nothing else: not
\* clients, not buff, nor any other variable of the reader or the connections.
C16_HealthAlwaysOk ==
    /\ [](Running => ENABLED Health)
    /\ [](resp \in {NoResponse, RefHealth})
    /\ [][resp' # resp =>
             /\ resp' = RefHealth
             /\ UNCHANGED <<stream, pos, dev, buff, rpc, data, snap, idx, dead, clients,
                            conn, broken, recv, lines, events, failed>>]_vars

\* the health endpoint has answered for the first time while a publish to two
\* subscribers is in flight and device bytes are unread
C16_Witness ==
    /\ resp = RefHealth
    /\ rpc = "send"
    /\ Cardinality(clients) = 2
    /\ pos < Len(stream)
    /\ buff # <<>>

\* a blank line: no bytes between two newlines, or none that decode
Blank(line) == Utf8Decode(line) = <<>>

\* C17: a blank line yields nothing and disturbs nothing. No event is built
\* from a blank line and no message a subscriber received comes from one;
\* and the events are the messages of the lines with a non-empty text, in
\* the order of those lines, as if the blank lines were not there: the i-th
\* event is the message of the i-th such line.
C17_BlankSkipped ==
    /\ \A k \in 1..Len(lines) : Blank(lines[k]) => EventsOf(k) = {}
    /\ \A c \in Conns : \A j \in 1..Len(recv[c]) : ~Blank(lines[events[recv[c][j].n].ln])
    /\ \A i \in 1..Len(events) :
          /\ events[i].msg = RefMsg(RefText(lines[events[i].ln]))
          /\ Cardinality({k \in 1..events[i].ln : RefText(lines[k]) # <<>>}) = i

\* the device sent a line and then two consecutive newlines: the subscriber
\* registered throughout received one message, that of the line
C17_Witness ==
    /\ rpc = "read"
    /\ lines = <<GarbageLine, BlankLine>>
    /\ Throughout(1)
    /\ recv[1] = <<[n |-> 1, data |-> Dumps(RefRaw(GarbageLine))]>>

\* reader.read returns b"" in this step
ZeroRead == rpc = "read" /\ rpc' = "sleep"

\* C18: a zero-length read changes nothing but the position of the reader,
\* which backs off: buff, clients, the events built and what the subscribers
\* received are as before; the backoff ends, and it ends at the read, with
\* buff and clients as the reader left them; and the bytes in buff are never
\* lost by it: at all times the records produced and the bytes held are those
\* of the bytes read so far, so a later read that brings the newline
\* completes the record.
C18_ZeroReadRetries ==
    /\ [][ZeroRead => UNCHANGED <<stream, pos, dev, buff, data, snap, idx, dead, clients,
                                  conn, broken, resp, recv, lines, events, failed>>]_vars
    /\ [][(rpc = "sleep" /\ rpc' # "sleep") =>
             (rpc' = "read" /\ UNCHANGED <<pos, buff, data, clients, recv, lines, events>>)]_vars
    /\ [][rpc = "sleep" => (buff' = buff /\ events' = events /\ recv' = recv)]_vars
    /\ rpc = "sleep" ~> rpc = "read"
    /\ [](lines \o RefLines(buff) = RefLines(Consumed) /\ RefRest(buff) = RefRest(Consumed))

\* the reader backs off after a zero-length read of the open device while it
\* holds the first byte of a record and a subscriber is registered
C18_Witness ==
    /\ rpc = "sleep"
    /\ dev = "open"
    /\ buff = <<"x">>
    /\ pos < Len(stream)
    /\ clients # {}

\* C19: at most one publish is in flight. While the reader is in the for
\* loop of a publish it reads no device byte; the loop ends only with the
\* send to the last subscriber of the snapshot, when every one of them has
\* received the event or had its send raise; only then the next event is
\* built, and the subscribers whose send raised are removed by then: they
\* are no members and not in the snapshot of the next event; and every
\* message a subscriber receives is the event in flight, sent to the
\* subscriber the loop is at.
C19_OnePublishInFlight ==
    /\ [][rpc = "send" =>
             /\ pos' = pos
             /\ LoopEnds =>
                   /\ idx = Len(snap)
                   /\ \A c \in Range(snap) : c \in failed' \/ GotEvent(recv', c, Len(events))
                   /\ clients' \cap failed' = {}
                   /\ \A i \in (Len(events) + 1)..Len(events') : events'[i].aud \cap failed' = {}
             /\ ~LoopEnds => (events' = events /\ buff' = buff /\ data' = data /\ snap' = snap)]_vars
    /\ [][\A c \in Conns :
             Len(recv'[c]) > Len(recv[c]) =>
                /\ rpc = "send"
                /\ c = snap[idx]
                /\ recv'[c] = Append(recv[c], [n |-> Len(events), data |-> data])
                /\ \A d \in Conns \ {c} : recv'[d] = recv[d]]_vars

\* the send to the second subscriber of a publish is pending while the next
\* record is complete in buff
C19_Witness ==
    /\ rpc = "send"
    /\ Len(snap) = 2
    /\ idx = 2
    /\ Len(events) = 1
    /\ NLs(buff) # {}

\* C20: no event is sent twice to a subscriber. The messages a subscriber
\* received are of different events, in increasing order; the sends that a
\* publish in flight still has to make go to different subscribers, none of
\* which has received the event or ever had a send raise; and a subscriber a
\* send to which raised receives nothing any more.
C20_NoDuplicates ==
    /\ [](\A c \in Conns : \A j, k \in 1..Len(recv[c]) : j < k => recv[c][j].n < recv[c][k].n)
    /\ [](rpc = "send" =>
             \A k \in idx..Len(snap) :
                /\ snap[k] \notin failed
                /\ ~Received(snap[k], Len(events))
                /\ \A j \in idx..Len(snap) : j # k => snap[j] # snap[k])
    /\ [][\A c \in failed : recv'[c] = recv[c]]_vars

\* two events were published to a subscriber that received each once, while
\* the send of the first to another subscriber raised and was not repeated
C20_Witness ==
    \E c, d \in Conns :
       /\ rpc = "read"
       /\ Len(events) = 2
       /\ c \in failed /\ c \in events[1].aud /\ c \notin events[2].aud /\ recv[c] = <<>>
       /\ Len(recv[d]) = 2 /\ recv[d][1].n = 1 /\ recv[d][2].n = 2

====
